---- MODULE Spec2Model ----
(***************************************************************************)
(* Browser scripts of the Depts application: the Kelly stake calculators   *)
(* (main.js, bet_records.js), the bulk-action form (bet_records.js), the   *)
(* phone mask and the alert dismissal (scripts.js and the unnamed script). *)
(*                                                                         *)
(* Texts are sequences of one-character strings.  Numbers are exact        *)
(* rationals [n, d] in lowest terms (d > 0); NaN is the record with d = 0. *)
(* JavaScript's binary floating point is modelled by exact arithmetic.     *)
(***************************************************************************)
EXTENDS Integers, Sequences, FiniteSets, TLC

(* ------------------------------ numbers ------------------------------ *)

Abs(x) == IF x < 0 THEN -x ELSE x

RECURSIVE Gcd(_, _)
Gcd(a, b) == IF b = 0 THEN a ELSE Gcd(b, a % b)

NaN == [n |-> 0, d |-> 0]

IsNaN(x) == x.d = 0

\* a/b with both divided by g
Reduced(a, b, g) == [n |-> a \div g, d |-> b \div g]

\* the rational a/b (b # 0) in lowest terms with a positive denominator
Rat(a, b) ==
    IF b < 0 THEN Reduced(-a, -b, Gcd(Abs(a), Abs(b)))
    ELSE Reduced(a, b, Gcd(Abs(a), Abs(b)))

\* -x
RNeg(x) == [n |-> -(x.n), d |-> x.d]

Num(k) == [n |-> k, d |-> 1]

RAdd(x, y) == IF IsNaN(x) \/ IsNaN(y) THEN NaN ELSE Rat(x.n * y.d + y.n * x.d, x.d * y.d)
RSub(x, y) == IF IsNaN(x) \/ IsNaN(y) THEN NaN ELSE Rat(x.n * y.d - y.n * x.d, x.d * y.d)
RMul(x, y) == IF IsNaN(x) \/ IsNaN(y) THEN NaN ELSE Rat(x.n * y.n, x.d * y.d)
\* x / y; the callers divide by non-zero values only
RDiv(x, y) == IF IsNaN(x) \/ IsNaN(y) \/ y.n = 0 THEN NaN ELSE Rat(x.n * y.d, x.d * y.n)

\* comparisons: every comparison with NaN is false, as in JavaScript
RLt(x, y) == ~IsNaN(x) /\ ~IsNaN(y) /\ x.n * y.d < y.n * x.d
RLe(x, y) == ~IsNaN(x) /\ ~IsNaN(y) /\ x.n * y.d <= y.n * x.d
RGt(x, y) == RLt(y, x)
RGe(x, y) == RLe(y, x)

\* JavaScript truthiness of a number: NaN and 0 are falsy
Truthy(x) == ~IsNaN(x) /\ x.n # 0

\* Math.max / Math.min on numbers that are not NaN
MathMax(x, y) == IF RLt(x, y) THEN y ELSE x
MathMin(x, y) == IF RLt(y, x) THEN y ELSE x

\* floor of a rational
RFloor(x) == x.n \div x.d

\* Math.round: the nearest integer, a tie going up
MathRound(x) == RFloor(RAdd(x, Rat(1, 2)))

(* ------------------------------- texts ------------------------------- *)

DigitChars == {"0", "1", "2", "3", "4", "5", "6", "7", "8", "9"}

DigitVal(c) ==
    CASE c = "0" -> 0 [] c = "1" -> 1 [] c = "2" -> 2 [] c = "3" -> 3
      [] c = "4" -> 4 [] c = "5" -> 5 [] c = "6" -> 6 [] c = "7" -> 7
      [] c = "8" -> 8 [] c = "9" -> 9

DigitChar(k) ==
    CASE k = 0 -> "0" [] k = 1 -> "1" [] k = 2 -> "2" [] k = 3 -> "3"
      [] k = 4 -> "4" [] k = 5 -> "5" [] k = 6 -> "6" [] k = 7 -> "7"
      [] k = 8 -> "8" [] k = 9 -> "9"

\* \s of a regular expression, over the characters the model uses
IsSpace(c) == c \in {" ", "nbsp"}

\* String.prototype.substring(from, to) with 0-based indices, to exclusive
Substring(s, from, to) ==
    LET a == IF from > Len(s) THEN Len(s) ELSE from
        b == IF to > Len(s) THEN Len(s) ELSE to
    IN  IF b <= a THEN << >> ELSE SubSeq(s, a + 1, b)

\* s.replace(/\s/g, '')
StripSpaces(s) == SelectSeq(s, LAMBDA c : ~IsSpace(c))

\* s.replace(/\D/g, '')
OnlyDigits(s) == SelectSeq(s, LAMBDA c : c \in DigitChars)

\* s.replace(',', '.') : the first comma only
RECURSIVE ReplaceFirstComma(_)
ReplaceFirstComma(s) ==
    IF s = << >> THEN << >>
    ELSE IF Head(s) = "," THEN <<".">> \o Tail(s)
    ELSE <<Head(s)>> \o ReplaceFirstComma(Tail(s))

\* the longest prefix of s made of digits
RECURSIVE DigitRun(_)
DigitRun(s) ==
    IF s = << >> \/ Head(s) \notin DigitChars THEN << >>
    ELSE <<Head(s)>> \o DigitRun(Tail(s))

\* the natural number written by a digit sequence
RECURSIVE DigitsValue(_)
DigitsValue(s) ==
    IF s = << >> THEN 0 ELSE 10 * DigitsValue(SubSeq(s, 1, Len(s) - 1)) + DigitVal(s[Len(s)])

RECURSIVE Pow10(_)
Pow10(k) == IF k = 0 THEN 1 ELSE 10 * Pow10(k - 1)

RECURSIVE SkipSpaces(_)
SkipSpaces(s) == IF s # << >> /\ IsSpace(Head(s)) THEN SkipSpaces(Tail(s)) ELSE s

\* the number with integer digits ip and fraction digits fp; NaN when both are empty
DecimalValue(ip, fp) ==
    IF ip = << >> /\ fp = << >> THEN NaN
    ELSE Rat(DigitsValue(ip) * Pow10(Len(fp)) + DigitsValue(fp), Pow10(Len(fp)))

\* the fraction digits at the start of r: a '.' and the digits after it
FractionDigits(r) == IF r # << >> /\ Head(r) = "." THEN DigitRun(Tail(r)) ELSE << >>

\* the decimal literal at the start of s, whose integer digits are ip
DecimalAfter(s, ip) == DecimalValue(ip, FractionDigits(SubSeq(s, Len(ip) + 1, Len(s))))

UnsignedDecimal(s) == DecimalAfter(s, DigitRun(s))

SignedDecimal(s) ==
    IF s = << >> THEN NaN
    ELSE IF Head(s) = "-" THEN RNeg(UnsignedDecimal(Tail(s)))
    ELSE IF Head(s) = "+" THEN UnsignedDecimal(Tail(s))
    ELSE UnsignedDecimal(s)

\* parseFloat: leading white space is skipped, then the longest prefix that is a
\* decimal literal (sign, digits, '.', digits) is read; NaN when there is none.
\* Exponents and 'Infinity' are outside the characters the model uses.
ParseFloat(text) == SignedDecimal(SkipSpaces(text))

\* Number.prototype.toString of a non-negative integer
RECURSIVE NatToText(_)
NatToText(k) == IF k < 10 THEN <<DigitChar(k)>> ELSE NatToText(k \div 10) \o <<DigitChar(k % 10)>>

IntToText(k) == IF k < 0 THEN <<"-">> \o NatToText(-k) ELSE NatToText(k)

\* digits grouped in threes from the right, sep between the groups
RECURSIVE Group3(_, _)
Group3(s, sep) ==
    IF Len(s) <= 3 THEN s
    ELSE Group3(SubSeq(s, 1, Len(s) - 3), sep) \o <<sep>> \o SubSeq(s, Len(s) - 2, Len(s))

\* k digits of the natural number v, zero-padded on the left
RECURSIVE PadDigits(_, _)
PadDigits(v, k) == IF k = 0 THEN << >> ELSE PadDigits(v \div 10, k - 1) \o <<DigitChar(v % 10)>>

\* the text of t / 10^k with k decimals, t a natural number and k >= 1
FixedText(t, k) == NatToText(t \div Pow10(k)) \o <<".">> \o PadDigits(t % Pow10(k), k)

\* Number.prototype.toFixed(k), k >= 1: the nearest number with k decimals, a tie
\* going to the larger magnitude; a negative number keeps its sign
ToFixed(x, k) ==
    IF x.n < 0 THEN <<"-">> \o FixedText(MathRound(RMul(RNeg(x), Num(Pow10(k)))), k)
    ELSE FixedText(MathRound(RMul(x, Num(Pow10(k)))), k)

\* the least number of decimals, at most three, that write x >= 0 exactly
Decimals(x) ==
    CHOOSE j \in 0..3 : /\ (x.n * Pow10(j)) % x.d = 0
                        /\ \A i \in 0..(j - 1) : (x.n * Pow10(i)) % x.d # 0

\* the text of x >= 0 with k decimals, none when k = 0
DecimalText(x, k) ==
    IF k = 0 THEN NatToText(x.n \div x.d) ELSE FixedText((x.n * Pow10(k)) \div x.d, k)

\* Number.prototype.toString of a number with at most three decimals
NumberToText(x) ==
    IF x.n < 0 THEN <<"-">> \o DecimalText(RNeg(x), Decimals(RNeg(x)))
    ELSE DecimalText(x, Decimals(x))

(* ------------------------------- state ------------------------------- *)

VARIABLES
    page,             \* which script's page is open
    \* the calculator fields (main.js: id_bank_before, id_recommended_odds,
    \* id_actual_prob, id_fractional_kelly; bet_records.js: bank, odds,
    \* probability, kelly_fraction): the value of each, a text
    bankInput, oddsInput, probInput, kellySelect,
    \* main.js
    stakeInput,       \* id_stake.value
    stakeDisplay,     \* id_stake_display.value
    userModified,     \* stakeDisplay._userModified
    \* bet_records.js, the calculator
    defaultProbHint,  \* defaultProbHint.textContent
    resultBlock,      \* resultBlock.style.display
    errorBlock,       \* errorBlock.style.display
    errorMessage,     \* errorMessage.textContent
    result,           \* the texts written into the result block
    last,             \* the local variables of the calculator run of the last event,
                      \* NoRun when the last event ran no calculator
    \* bet_records.js, the bulk-action form
    checkedBets,      \* the '.bet-select' checkboxes that are checked
    applyDisabled,    \* applyBulkAction.disabled
    actionSelect,     \* bulkAction.value
    form,             \* the children of bulkActionForm, in order
    bulkActionInput,  \* bulkActionInput.value
    confirmInput,     \* confirmInput.value
    modalBody,        \* modalBody.innerHTML
    modalShow,        \* whether confirmModal has the class 'show'
    bulkEvent,        \* the last event of the page and the alert() it raised
    applied,          \* the checkboxes and the action of the last accepted Apply click,
                      \* and the checkboxes of the one before
    submission,       \* what form.submit() sent
    \* scripts.js and the unnamed script, the phone mask
    fieldName,        \* the name of the text field the user edits
    fieldValue,       \* its value
    phoneRaw,         \* the value it held when its last 'input' event fired, where
                      \* its name includes 'phone'
    \* scripts.js and the unnamed script, the alerts
    messages,         \* per DOMContentLoaded handler, the '.alert' elements it found
    alertEls,         \* per '.alert' element: its style.opacity, whether it is in the
                      \* document, and when it was faded and removed
    timers,           \* the pending setTimeout callbacks, in the order they were set
    now,              \* the time since DOMContentLoaded, in units of TickMs
    handlersRun       \* how many DOMContentLoaded handlers have run

kellyVars == <<bankInput, oddsInput, probInput, kellySelect, stakeInput, stakeDisplay,
               userModified, defaultProbHint, resultBlock, errorBlock, errorMessage,
               result, last>>

bulkVars == <<checkedBets, applyDisabled, actionSelect, form, bulkActionInput,
              confirmInput, modalBody, modalShow, bulkEvent, applied, submission>>

phoneVars == <<fieldName, fieldValue, phoneRaw>>

alertVars == <<messages, alertEls, timers, now, handlersRun>>

vars == <<page, kellyVars, bulkVars, phoneVars, alertVars>>

\* what the calculator pages do not have
notKelly == <<bulkVars, phoneVars, alertVars>>

(* --------------------------- the input sets --------------------------- *)

\* what a user may type into the bankroll, odds and probability fields
BankTexts == { <<"5", "0">>, <<"1", "0", "0", "0">>, <<"1", " ", "0", "0", "0">> }
OddsTexts == { << >>, <<"1", ".", "0", "0", "5">>, <<"1", ".", "0", "1">>, <<"2">>,
               <<"2", ",", "5">> }
ProbTexts == { << >>, <<"-", "5">>, <<"4", "0">>, <<"6", "0">>, <<"1", "0", "0">> }
\* the values of the options of the Kelly multiplier <select>
KellyOptions == { <<"1">>, <<"0", ".", "2", "5">> }
\* the data-odds, data-prob, data-bank and data-kelly of the example cards
ExampleCards ==
    { [odds |-> <<"2">>, prob |-> <<"6", "0">>, bank |-> <<"1", "0", "0", "0">>,
       kelly |-> <<"0", ".", "2", "5", "0">>],
      [odds |-> <<"2">>, prob |-> <<"4", "0">>, bank |-> <<"5", "0">>,
       kelly |-> <<"0", ".", "5">>] }
\* a bet the form of main.js may come filled with
RenderedBets ==
    { [bank |-> <<"1", "9", "9">>, odds |-> <<"2">>, prob |-> <<"9", "0">>,
       kelly |-> <<"1">>] }
\* what a user may type into the stake display field of main.js
StakeTexts == { <<"7", "7">>, <<"1", " ", "5", "0", "0">> }

(* ------------------------- main.js: calculator ------------------------ *)

\* parseFloat(...) || 0
OrZero(x) == IF Truthy(x) THEN x ELSE Num(0)

\* getFloatValue(element), of the element's value
GetFloatValue(value) ==
    IF value = << >> THEN Num(0)
    ELSE OrZero(ParseFloat(ReplaceFirstComma(StripSpaces(value))))

\* a slip of RoundToHundreds: Math.floor for Math.round
RoundToHundredsFloor(value) == RFloor(RDiv(value, Num(100))) * 100

\* roundToHundreds(value)
RoundToHundreds(value) == MathRound(RDiv(value, Num(100))) * 100

\* formatNumberWithSpaces(value), value an integer >= 0
FormatNumberWithSpaces(value) == Group3(IntToText(value), " ")

\* the Kelly fraction: (p * odds - 1) / (odds - 1)
FullKelly(p, odds) == RDiv(RSub(RMul(p, odds), Num(1)), RSub(odds, Num(1)))

\* a slip of LimitedKelly: the lower clamp is lost
LimitedKellyNoFloor(fullKelly) == MathMin(fullKelly, Num(1))

\* Math.max(0, Math.min(fullKelly, 1))
LimitedKelly(fullKelly) == MathMax(Num(0), MathMin(fullKelly, Num(1)))

\* the local variables of a calculator run that computed no stake
Rejected(fn, bankT, oddsT, probT, kellyT, bank, odds, prob, fraction) ==
    [fn |-> fn, bankText |-> bankT, oddsText |-> oddsT, probText |-> probT,
     kellyText |-> kellyT, accepted |-> FALSE, bank |-> bank, odds |-> odds,
     prob |-> prob, fraction |-> fraction, stake |-> NaN, roundedStake |-> 0]

\* the local variables of a calculator run that computed a stake
Accepted(run, prob, stake, roundedStake) ==
    [run EXCEPT !.accepted = TRUE, !.prob = prob, !.stake = stake,
                !.roundedStake = roundedStake]

NoRun == Rejected("none", << >>, << >>, << >>, << >>, NaN, NaN, NaN, NaN)

\* the condition of calculateStake
StakeCondition(bank, odds, prob) ==
    RGt(odds, Num(1)) /\ RGt(prob, Num(0)) /\ RLe(prob, Num(100)) /\ RGt(bank, Num(0))

\* const stake = bank * limitedKelly * fraction, with p = prob / 100
MainStake(bank, odds, prob, fraction) ==
    RMul(RMul(bank, LimitedKelly(FullKelly(RDiv(prob, Num(100)), odds))), fraction)

\* calculateStake() from the stake on
StakeRounded(run, prob, stake) == Accepted(run, prob, stake, RoundToHundreds(stake))

\* calculateStake() from the condition on
StakeChecked(run, bank, odds, prob, fraction) ==
    IF StakeCondition(bank, odds, prob)
    THEN StakeRounded(run, prob, MainStake(bank, odds, prob, fraction))
    ELSE run

\* calculateStake() from the parsed values on
StakeParsed(bankT, oddsT, probT, kellyT, bank, odds, prob, fraction) ==
    StakeChecked(Rejected("calculateStake", bankT, oddsT, probT, kellyT,
                          bank, odds, prob, fraction),
                 bank, odds, prob, fraction)

\* the local variables of calculateStake() on the given field values
CalculateStakeLocals(bankT, oddsT, probT, kellyT) ==
    StakeParsed(bankT, oddsT, probT, kellyT, GetFloatValue(bankT), GetFloatValue(oddsT),
                GetFloatValue(probT), OrZero(ParseFloat(kellyT)))

\* what calculateStake() writes when the flag is clear
StakeWritten(l) ==
    /\ last' = l
    /\ stakeInput' = IntToText(l.roundedStake)
    /\ stakeDisplay' = IF l.accepted THEN FormatNumberWithSpaces(l.roundedStake)
                       ELSE <<"0">>

\* calculateStake(), with the fields and the flag as given
CalculateStake(bankT, oddsT, probT, kellyT, flag) ==
    IF ~flag THEN StakeWritten(CalculateStakeLocals(bankT, oddsT, probT, kellyT))
    ELSE /\ last' = CalculateStakeLocals(bankT, oddsT, probT, kellyT)
         /\ UNCHANGED <<stakeInput, stakeDisplay>>

calcPageVars == <<defaultProbHint, resultBlock, errorBlock, errorMessage, result>>

\* the flag recalcWithFlag leaves in stakeDisplay._userModified
FlagAfterRecalc(flag) == FALSE

\* recalcWithFlag(), after the field values have become the given ones
RecalcWithFlag(bankT, oddsT, probT, kellyT) ==
    /\ userModified' = FlagAfterRecalc(userModified)
    /\ CalculateStake(bankT, oddsT, probT, kellyT, FlagAfterRecalc(userModified))

\* 'input' on id_bank_before
MainBankInput ==
    /\ page = "main.js"
    /\ \E t \in BankTexts :
        /\ bankInput' = t
        /\ RecalcWithFlag(t, oddsInput, probInput, kellySelect)
    /\ UNCHANGED <<page, notKelly, oddsInput, probInput, kellySelect, calcPageVars>>

\* 'input' on id_recommended_odds
MainOddsInput ==
    /\ page = "main.js"
    /\ \E t \in OddsTexts :
        /\ oddsInput' = t
        /\ RecalcWithFlag(bankInput, t, probInput, kellySelect)
    /\ UNCHANGED <<page, notKelly, bankInput, probInput, kellySelect, calcPageVars>>

\* 'input' on id_actual_prob
MainProbInput ==
    /\ page = "main.js"
    /\ \E t \in ProbTexts :
        /\ probInput' = t
        /\ RecalcWithFlag(bankInput, oddsInput, t, kellySelect)
    /\ UNCHANGED <<page, notKelly, bankInput, oddsInput, kellySelect, calcPageVars>>

\* 'change' on id_fractional_kelly
MainKellyChange ==
    /\ page = "main.js"
    /\ \E t \in KellyOptions :
        /\ kellySelect' = t
        /\ RecalcWithFlag(bankInput, oddsInput, probInput, t)
    /\ UNCHANGED <<page, notKelly, bankInput, oddsInput, probInput, calcPageVars>>

\* 'input' on id_stake_display
StakeDisplayInput ==
    /\ page = "main.js"
    /\ \E t \in StakeTexts :
        /\ stakeDisplay' = t
        /\ userModified' = TRUE
        /\ stakeInput' = StripSpaces(t)
    /\ UNCHANGED <<page, notKelly, bankInput, oddsInput, probInput, kellySelect, calcPageVars>>
    /\ last' = NoRun

NoResult == [resultProb |-> << >>, resultOdds |-> << >>, resultBank |-> << >>,
             resultKelly |-> << >>, roiIndicator |-> << >>, roiClass |-> "",
             recommendedStake |-> << >>, stakePercent |-> << >>,
             progressPercent |-> << >>, progressWidth |-> NaN]

\* the initial calculateStake() of main.js, the flag being clear
InitStake(l) ==
    /\ last = l
    /\ stakeInput = IntToText(l.roundedStake)
    /\ stakeDisplay = IF l.accepted THEN FormatNumberWithSpaces(l.roundedStake)
                      ELSE <<"0">>

\* main.js after its DOMContentLoaded handlers: the flag is cleared and
\* calculateStake() has run once on the values the page came with
InitMain ==
    /\ page = "main.js"
    /\ \/ /\ bankInput \in BankTexts /\ oddsInput \in OddsTexts
          /\ probInput \in ProbTexts /\ kellySelect \in KellyOptions
       \/ \E bet \in RenderedBets :
            /\ bankInput = bet.bank /\ oddsInput = bet.odds
            /\ probInput = bet.prob /\ kellySelect = bet.kelly
    /\ userModified = FALSE
    /\ InitStake(CalculateStakeLocals(bankInput, oddsInput, probInput, kellySelect))
    /\ defaultProbHint = << >> /\ resultBlock = "" /\ errorBlock = ""
    /\ errorMessage = "" /\ result = NoResult

NextMain == MainBankInput \/ MainOddsInput \/ MainProbInput \/ MainKellyChange
                \/ StakeDisplayInput

(* ---------------------- bet_records.js: calculator -------------------- *)

\* const DEFAULT_ROI = 5
DEFAULT_ROI == 5

\* the null that calculateDefaultProbability returns: falsy, and not a number
Null == [n |-> 1, d |-> 0]

\* the bound 99.9 of calculateDefaultProbability
ProbCap == Rat(999, 10)

\* the least odds calculate and calculateDefaultProbability take: 1.01
MinOdds == Rat(101, 100)

\* a slip of DefaultProbabilityOf: the bound 99.9 is lost
DefaultProbabilityUncapped(odds) ==
    IF ~Truthy(odds) \/ RLt(odds, MinOdds) THEN Null
    ELSE RMul(RDiv(RAdd(Num(1), Rat(DEFAULT_ROI, 100)), odds), Num(100))

\* calculateDefaultProbability() from the parsed odds on
DefaultProbabilityOf(odds) ==
    IF ~Truthy(odds) \/ RLt(odds, MinOdds) THEN Null
    ELSE MathMin(RMul(RDiv(RAdd(Num(1), Rat(DEFAULT_ROI, 100)), odds), Num(100)), ProbCap)

\* calculateDefaultProbability(), of oddsInput.value
CalculateDefaultProbability(oddsT) == DefaultProbabilityOf(ParseFloat(oddsT))

\* the hint text "(for ROI <roi>% <prob>% is needed)"
HintText(roi, probText) ==
    <<"(", "ROI", " ">> \o NatToText(roi) \o <<"%", " ">> \o probText \o <<"%", ")">>

\* updateDefaultProbability() from the default probability on
DefaultProbabilityShown(defaultProb, probT) ==
    IF Truthy(defaultProb)
    THEN [hint |-> HintText(DEFAULT_ROI, ToFixed(defaultProb, 1)),
          prob |-> IF probT = << >> THEN ToFixed(defaultProb, 1) ELSE probT]
    ELSE [hint |-> << >>, prob |-> probT]

\* updateDefaultProbability(): the new defaultProbHint.textContent and probInput.value
UpdateDefaultProbability(oddsT, probT) ==
    DefaultProbabilityShown(CalculateDefaultProbability(oddsT), probT)

\* setDefaultProbability() from the default probability on
DefaultProbabilitySet(defaultProb, probT) ==
    IF Truthy(defaultProb) THEN ToFixed(defaultProb, 1) ELSE probT

\* setDefaultProbability(): the new probInput.value
SetDefaultProbability(oddsT, probT) ==
    DefaultProbabilitySet(CalculateDefaultProbability(oddsT), probT)

\* formatNumber(value): Intl.NumberFormat('ru-RU') of Math.round(value), value >= 0
FormatNumber(value) == Group3(IntToText(MathRound(value)), "nbsp")

\* the messages of showError
ErrOdds == "odds must be greater than 1.01"
ErrNoProb == "the probability cannot be computed"
ErrProb == "the probability must be from 0.1% to 99.9%"
ErrBank == "the bank must be at least 100"

\* the ROI indicator: its class and its text, for currentRoi
RoiIndicator(res, currentRoi) ==
    [res EXCEPT
        !.roiIndicator = (IF RGt(currentRoi, Num(0)) THEN <<"+">> ELSE << >>)
                             \o ToFixed(currentRoi, 1) \o <<"%">>,
        !.roiClass = IF RGt(currentRoi, Num(0)) THEN "positive" ELSE "negative"]

\* the progress bar, for progressWidth
Progress(res, progressWidth) ==
    [res EXCEPT !.progressPercent = ToFixed(progressWidth, 1) \o <<"%">>,
                !.progressWidth = progressWidth]

\* the texts calculate() writes into the result block
ResultTexts(odds, prob, bank, fraction, stakeKelly, roundedStake) ==
    Progress(
        RoiIndicator(
            [NoResult EXCEPT
                !.resultProb = ToFixed(prob, 1) \o <<"%">>,
                !.resultOdds = ToFixed(odds, 2),
                !.resultBank = FormatNumber(bank) \o <<" ", "rub">>,
                !.resultKelly = NumberToText(fraction),
                !.recommendedStake = FormatNumber(Num(roundedStake)) \o <<" ", "rub">>,
                !.stakePercent = ToFixed(RMul(stakeKelly, Num(100)), 2) \o <<"%">>],
            RMul(RSub(RMul(RDiv(prob, Num(100)), odds), Num(1)), Num(100))),
        MathMin(RMul(stakeKelly, Num(100)), Num(100)))

\* a slip of ShowError: the result block is left as it was
ShowErrorKeepsResult(d, message) ==
    [d EXCEPT !.errorMessage = message, !.errorBlock = "flex"]

\* showError(message), on the page state d
ShowError(d, message) ==
    [d EXCEPT !.errorMessage = message, !.errorBlock = "flex", !.resultBlock = "none"]

\* hideError(), on the page state d
HideError(d) == [d EXCEPT !.errorBlock = "none"]

\* what calculate() leaves: its return value, probInput.value, the page, the locals
Outcome(ret, probV, d, run) == [ret |-> ret, prob |-> probV, d |-> d, run |-> run]

\* a slip of RoundedStake: Math.ceil for Math.round
RoundedStakeCeil(stake) == (-RFloor(RNeg(RDiv(stake, Num(100))))) * 100

\* const roundedStake = Math.round(stake / 100) * 100
RoundedStake(stake) == MathRound(RDiv(stake, Num(100))) * 100

\* calculate() from roundedStake on
CalcShown(odds, prob, bank, fraction, probV, d, run, stakeKelly, stake, roundedStake) ==
    Outcome(TRUE, probV,
            [d EXCEPT !.result = ResultTexts(odds, prob, bank, fraction, stakeKelly,
                                             roundedStake),
                      !.resultBlock = "block"],
            Accepted(run, prob, stake, roundedStake))

\* calculate() from stake on
CalcStake(odds, prob, bank, fraction, probV, d, run, stakeKelly, stake) ==
    CalcShown(odds, prob, bank, fraction, probV, d, run, stakeKelly, stake,
              RoundedStake(stake))

\* calculate() from stakeKelly on
CalcKelly(odds, prob, bank, fraction, probV, d, run, stakeKelly) ==
    CalcStake(odds, prob, bank, fraction, probV, d, run, stakeKelly,
              RMul(bank, stakeKelly))

\* calculate() from the check of the probability on
CalcChecked(odds, prob, bank, fraction, probV, d, run) ==
    IF RLe(prob, Num(0)) \/ RGe(prob, Num(100))
    THEN Outcome(FALSE, probV, ShowError(d, ErrProb), [run EXCEPT !.prob = prob])
    ELSE IF ~Truthy(bank) \/ RLt(bank, Num(100))
    THEN Outcome(FALSE, probV, ShowError(d, ErrBank), [run EXCEPT !.prob = prob])
    ELSE CalcKelly(odds, prob, bank, fraction, probV, HideError(d), run,
                   RMul(LimitedKelly(FullKelly(RDiv(prob, Num(100)), odds)), fraction))

\* whether calculate() replaces the probability it parsed
Substituted(prob) == ~Truthy(prob) \/ RLe(prob, Num(0))

\* calculate() from the parsed values on
CalcParsed(odds, prob, bank, fraction, defaultProb, probT, d, run) ==
    IF ~Truthy(odds) \/ RLt(odds, MinOdds)
    THEN Outcome(FALSE, probT, ShowError(d, ErrOdds), run)
    ELSE IF Substituted(prob)
    THEN IF Truthy(defaultProb)
         THEN CalcChecked(odds, defaultProb, bank, fraction, ToFixed(defaultProb, 1), d, run)
         ELSE Outcome(FALSE, probT, ShowError(d, ErrNoProb), run)
    ELSE CalcChecked(odds, prob, bank, fraction, probT, d, run)

\* calculate() on the given field values and page state d
CalcRun(oddsT, probT, bankT, kellyT, d, odds, prob, bank, fraction) ==
    CalcParsed(odds, prob, bank, fraction, CalculateDefaultProbability(oddsT), probT, d,
               Rejected("calculate", bankT, oddsT, probT, kellyT, bank, odds, prob,
                        fraction))

Calculate(oddsT, probT, bankT, kellyT, d) ==
    CalcRun(oddsT, probT, bankT, kellyT, d, ParseFloat(oddsT), ParseFloat(probT),
            ParseFloat(bankT), ParseFloat(kellyT))

\* the page state calculate() reads and writes
PageState == [errorMessage |-> errorMessage, errorBlock |-> errorBlock,
              resultBlock |-> resultBlock, result |-> result]

\* the page after an outcome c of Calculate
Written(c) ==
    /\ probInput' = c.prob
    /\ errorMessage' = c.d.errorMessage
    /\ errorBlock' = c.d.errorBlock
    /\ resultBlock' = c.d.resultBlock
    /\ result' = c.d.result
    /\ last' = c.run

mainPageVars == <<stakeInput, stakeDisplay, userModified>>

\* the page after updateDefaultProbability() gave u
HintShown(u) == defaultProbHint' = u.hint /\ probInput' = u.prob

\* 'input' on odds: updateDefaultProbability
CalcOddsInput ==
    /\ page = "bet_records.js"
    /\ \E t \in OddsTexts :
        /\ oddsInput' = t
        /\ HintShown(UpdateDefaultProbability(t, probInput))
    /\ UNCHANGED <<page, notKelly, bankInput, kellySelect, mainPageVars, resultBlock, errorBlock,
                   errorMessage, result>>
    /\ last' = NoRun

\* the user edits the probability, the bank or the multiplier: no listener runs
CalcProbInput ==
    /\ page = "bet_records.js"
    /\ \E t \in ProbTexts : probInput' = t
    /\ UNCHANGED <<page, notKelly, bankInput, oddsInput, kellySelect, mainPageVars, calcPageVars>>
    /\ last' = NoRun

CalcBankInput ==
    /\ page = "bet_records.js"
    /\ \E t \in BankTexts : bankInput' = t
    /\ UNCHANGED <<page, notKelly, probInput, oddsInput, kellySelect, mainPageVars, calcPageVars>>
    /\ last' = NoRun

CalcKellyChange ==
    /\ page = "bet_records.js"
    /\ \E t \in KellyOptions : kellySelect' = t
    /\ UNCHANGED <<page, notKelly, probInput, oddsInput, bankInput, mainPageVars, calcPageVars>>
    /\ last' = NoRun

\* 'click' on useDefaultProb: setDefaultProbability
UseDefaultProbClick ==
    /\ page = "bet_records.js"
    /\ probInput' = SetDefaultProbability(oddsInput, probInput)
    /\ UNCHANGED <<page, notKelly, bankInput, oddsInput, kellySelect, mainPageVars, calcPageVars>>
    /\ last' = NoRun

\* 'click' on calculateBtn: calculate
CalculateClick ==
    /\ page = "bet_records.js"
    /\ Written(Calculate(oddsInput, probInput, bankInput, kellySelect, PageState))
    /\ UNCHANGED <<page, notKelly, bankInput, oddsInput, kellySelect, mainPageVars, defaultProbHint>>

\* 'keypress' of Enter in one of the four fields: calculate
EnterKeypress ==
    /\ page = "bet_records.js"
    /\ \E field \in {"odds", "probability", "bank", "kelly_fraction"} :
        Written(Calculate(oddsInput, probInput, bankInput, kellySelect, PageState))
    /\ UNCHANGED <<page, notKelly, bankInput, oddsInput, kellySelect, mainPageVars, defaultProbHint>>

\* the option the example button selects: the one whose value parses to the
\* card's data-kelly; the selection stays when there is none
SelectedOption(kelly, current) ==
    IF \E o \in KellyOptions : ParseFloat(o) = ParseFloat(kelly)
    THEN CHOOSE o \in KellyOptions : ParseFloat(o) = ParseFloat(kelly)
    ELSE current

\* the example button's handler once the fields are set: updateDefaultProbability
\* gave u, then calculate
ExampleCalculated(card, k, u) ==
    /\ kellySelect' = k
    /\ defaultProbHint' = u.hint
    /\ Written(Calculate(card.odds, u.prob, card.bank, k, PageState))

\* 'click' on an example button
ExampleBtnClick ==
    /\ page = "bet_records.js"
    /\ \E card \in ExampleCards :
        /\ oddsInput' = card.odds
        /\ bankInput' = card.bank
        /\ ExampleCalculated(card, SelectedOption(card.kelly, kellySelect),
                             UpdateDefaultProbability(card.odds, card.prob))
    /\ UNCHANGED <<page, notKelly, mainPageVars>>

\* the calculator of bet_records.js after its DOMContentLoaded handler:
\* updateDefaultProbability() has run on the values the page came with
InitCalc ==
    /\ page = "bet_records.js"
    /\ bankInput \in BankTexts /\ oddsInput \in OddsTexts /\ kellySelect \in KellyOptions
    /\ \E t \in ProbTexts :
        /\ probInput = UpdateDefaultProbability(oddsInput, t).prob
        /\ defaultProbHint = UpdateDefaultProbability(oddsInput, t).hint
    /\ resultBlock = "" /\ errorBlock = "" /\ errorMessage = "" /\ result = NoResult
    /\ last = NoRun
    /\ stakeInput = << >> /\ stakeDisplay = << >> /\ userModified = FALSE

NextCalc == CalcOddsInput \/ CalcProbInput \/ CalcBankInput \/ CalcKellyChange
                \/ UseDefaultProbClick \/ CalculateClick \/ EnterKeypress
                \/ ExampleBtnClick

(* -------------------- bet_records.js: bulk actions -------------------- *)

\* how many '.bet-select' checkboxes the page has
NumBets == 3

Bets == 1..NumBets

\* the values of the options of the bulkAction <select>; the first selects nothing
BulkActions == {"", "delete", "archive"}

\* the text of the selected option, lower-cased
ActionText(action) == IF action = "archive" THEN "move to the archive" ELSE action

\* the children the form comes with: the loop of the Apply handler keeps 3
BaseChildren == 3

BaseForm == << [name |-> "csrfmiddlewaretoken", value |-> 0],
               [name |-> "bulk_action", value |-> 0],
               [name |-> "confirm", value |-> 0] >>

NoApply == [checked |-> {}, action |-> "", earlier |-> {}]
NoSubmission == [sent |-> FALSE, selected_bets |-> << >>, bulk_action |-> "",
                 confirm |-> "", applied |-> NoApply]
NoBody == [action |-> "", count |-> 0, warning |-> FALSE]

\* a slip of UpdateButtonState: the button stays disabled with one checkbox checked
UpdateButtonStateOffByOne(checkedCount) == checkedCount <= 1

\* updateButtonState(): applyBtn.disabled = checkedCount === 0
UpdateButtonState(checkedCount) == checkedCount = 0

\* a slip of ClearForm: the loop keeps one child too many
RECURSIVE ClearFormKeepsOne(_)
ClearFormKeepsOne(children) ==
    IF Len(children) > BaseChildren + 1
    THEN ClearFormKeepsOne(SubSeq(children, 1, Len(children) - 1))
    ELSE children

\* while (form.children.length > 3) form.removeChild(form.lastChild)
RECURSIVE ClearForm(_)
ClearForm(children) ==
    IF Len(children) > BaseChildren
    THEN ClearForm(SubSeq(children, 1, Len(children) - 1))
    ELSE children

\* the elements of a set of checkboxes in document order
RECURSIVE InOrder(_)
InOrder(set) ==
    IF set = {} THEN << >>
    ELSE <<CHOOSE b \in set : \A c \in set : b <= c>>
             \o InOrder(set \ {CHOOSE b \in set : \A c \in set : b <= c})

\* selected.forEach: one hidden input 'selected_bets' per checkbox, appended
AppendSelected(children, selected) ==
    children \o [i \in 1..Len(selected) |-> [name |-> "selected_bets", value |-> selected[i]]]

\* the modal body for the action and the number of selected bets
ModalBody(action, count) ==
    [action |-> ActionText(action), count |-> count, warning |-> action = "delete"]

bulkGhost == <<applied, submission>>

\* 'change' on a checkbox: the user toggles it, then updateButtonState
CheckboxChange ==
    /\ page = "bet_records.js" /\ ~submission.sent
    /\ \E cb \in Bets :
        /\ checkedBets' = IF cb \in checkedBets THEN checkedBets \ {cb}
                          ELSE checkedBets \cup {cb}
        /\ applyDisabled' = UpdateButtonState(Cardinality(checkedBets'))
    /\ bulkEvent' = [type |-> "change", alert |-> ""]
    /\ UNCHANGED <<page, kellyVars, phoneVars, alertVars, actionSelect, form,
                   bulkActionInput, confirmInput, modalBody, modalShow, bulkGhost>>

\* the user selects an option of bulkAction: no listener runs
ActionChange ==
    /\ page = "bet_records.js" /\ ~submission.sent
    /\ \E a \in BulkActions : actionSelect' = a
    /\ bulkEvent' = [type |-> "select", alert |-> ""]
    /\ UNCHANGED <<page, kellyVars, phoneVars, alertVars, checkedBets, applyDisabled, form,
                   bulkActionInput, confirmInput, modalBody, modalShow, bulkGhost>>

\* 'click' on applyBulkAction with no action selected
ApplyNoAction ==
    /\ page = "bet_records.js" /\ ~submission.sent /\ ~applyDisabled
    /\ actionSelect = ""
    /\ bulkEvent' = [type |-> "apply", alert |-> "select an action"]
    /\ UNCHANGED <<page, kellyVars, phoneVars, alertVars, checkedBets, applyDisabled,
                   actionSelect, form, bulkActionInput, confirmInput, modalBody,
                   modalShow, bulkGhost>>

\* 'click' on applyBulkAction with an action and no checkbox checked
ApplyNoneSelected ==
    /\ page = "bet_records.js" /\ ~submission.sent /\ ~applyDisabled
    /\ actionSelect # "" /\ checkedBets = {}
    /\ bulkEvent' = [type |-> "apply", alert |-> "select at least one bet"]
    /\ UNCHANGED <<page, kellyVars, phoneVars, alertVars, checkedBets, applyDisabled,
                   actionSelect, form, bulkActionInput, confirmInput, modalBody,
                   modalShow, bulkGhost>>

\* 'click' on applyBulkAction with an action and checked checkboxes
ApplyAccepted ==
    /\ page = "bet_records.js" /\ ~submission.sent /\ ~applyDisabled
    /\ actionSelect # "" /\ checkedBets # {}
    /\ form' = AppendSelected(ClearForm(form), InOrder(checkedBets))
    /\ bulkActionInput' = actionSelect
    /\ modalBody' = ModalBody(actionSelect, Cardinality(checkedBets))
    /\ modalShow' = TRUE
    /\ bulkEvent' = [type |-> "apply", alert |-> ""]
    /\ applied' = [checked |-> checkedBets, action |-> actionSelect,
                   earlier |-> applied.checked]
    /\ UNCHANGED <<page, kellyVars, phoneVars, alertVars, checkedBets, applyDisabled,
                   actionSelect, confirmInput, submission>>

\* the 'selected_bets' values among the children of the form
SelectedBets(children) ==
    LET hidden == SelectSeq(children, LAMBDA c : c.name = "selected_bets")
    IN  [i \in 1..Len(hidden) |-> hidden[i].value]

\* confirmAction.onclick, the modal being shown: the form is submitted and the
\* page is left
ConfirmClick ==
    /\ page = "bet_records.js" /\ ~submission.sent /\ modalShow
    /\ confirmInput' = "true"
    /\ submission' = [sent |-> TRUE, selected_bets |-> SelectedBets(form),
                      bulk_action |-> bulkActionInput, confirm |-> confirmInput',
                      applied |-> applied]
    /\ bulkEvent' = [type |-> "confirm", alert |-> ""]
    /\ UNCHANGED <<page, kellyVars, phoneVars, alertVars, checkedBets, applyDisabled,
                   actionSelect, form, bulkActionInput, modalBody, modalShow, applied>>

\* closeModal(), from the modal's buttons or from a click on the modal's backdrop
CloseModal ==
    /\ page = "bet_records.js" /\ ~submission.sent /\ modalShow
    /\ modalShow' = FALSE
    /\ bulkEvent' = [type |-> "close", alert |-> ""]
    /\ UNCHANGED <<page, kellyVars, phoneVars, alertVars, checkedBets, applyDisabled,
                   actionSelect, form, bulkActionInput, confirmInput, modalBody,
                   bulkGhost>>

\* the bulk-action form as the page comes: nothing checked, no action selected,
\* the modal hidden; the Apply button disabled or not, as the markup has it
BulkLoaded ==
    /\ checkedBets = {} /\ applyDisabled \in BOOLEAN /\ actionSelect = ""
    /\ form = BaseForm /\ bulkActionInput = "" /\ confirmInput = ""
    /\ modalBody = NoBody /\ modalShow = FALSE
    /\ bulkEvent = [type |-> "load", alert |-> ""]
    /\ applied = NoApply /\ submission = NoSubmission

\* a page without the bulk-action form
NoBulk ==
    /\ checkedBets = {} /\ applyDisabled = FALSE /\ actionSelect = ""
    /\ form = BaseForm /\ bulkActionInput = "" /\ confirmInput = ""
    /\ modalBody = NoBody /\ modalShow = FALSE
    /\ bulkEvent = [type |-> "load", alert |-> ""]
    /\ applied = NoApply /\ submission = NoSubmission

NextBulk == CheckboxChange \/ ActionChange \/ ApplyNoAction \/ ApplyNoneSelected
                \/ ApplyAccepted \/ ConfirmClick \/ CloseModal

(* ------------- scripts.js and the unnamed script: phone mask ---------- *)

\* the text fields of the page, by name
Fields == {"creditor_phone", "comment"}

\* e.target.name.includes('phone')
NameIncludesPhone(name) == name = "creditor_phone"

\* if (value[0] === '7' || value[0] === '8') value = value.substring(1)
DropCountryDigit(value) ==
    IF Len(value) > 0 /\ (value[1] = "7" \/ value[1] = "8") THEN Substring(value, 1, Len(value))
    ELSE value

\* a slip of FormatPhone: the last group takes the digits to the end
FormatPhoneUncut(value) ==
    <<"+", "7", " ">>
        \o (IF Len(value) > 0 THEN <<"(">> \o Substring(value, 0, 3) ELSE << >>)
        \o (IF Len(value) >= 3 THEN <<")", " ">> \o Substring(value, 3, 6) ELSE << >>)
        \o (IF Len(value) >= 6 THEN <<"-">> \o Substring(value, 6, 8) ELSE << >>)
        \o (IF Len(value) >= 8 THEN <<"-">> \o Substring(value, 8, Len(value)) ELSE << >>)

\* formattedValue: '+7 ' and the digits of value laid out
FormatPhone(value) ==
    <<"+", "7", " ">>
        \o (IF Len(value) > 0 THEN <<"(">> \o Substring(value, 0, 3) ELSE << >>)
        \o (IF Len(value) >= 3 THEN <<")", " ">> \o Substring(value, 3, 6) ELSE << >>)
        \o (IF Len(value) >= 6 THEN <<"-">> \o Substring(value, 6, 8) ELSE << >>)
        \o (IF Len(value) >= 8 THEN <<"-">> \o Substring(value, 8, 10) ELSE << >>)

\* the 'input' listener that scripts.js (42-59) and the unnamed script (57-74) add
\* in their DOMContentLoaded handler: the new value of a field that holds raw
MaskPhone(raw) == FormatPhone(DropCountryDigit(OnlyDigits(raw)))

\* the 'input' listener of scripts.js (73-112) from the digits on
MaskLimited(raw, value) ==
    IF Len(value) > 10 THEN Substring(raw, 0, 18) ELSE FormatPhone(value)

\* the 'input' listener that scripts.js adds at its top level (73-112)
MaskPhoneLimited(raw) == MaskLimited(raw, DropCountryDigit(OnlyDigits(raw)))

\* the 'input' listeners of the page, in the order they were added, on a field
\* that holds raw
InputListeners(p, raw) ==
    IF p = "scripts.js" THEN MaskPhone(MaskPhoneLimited(raw)) ELSE MaskPhone(raw)

\* what a user may type at the end of the field
TypedChars == {"7", "9", "-"}

\* what a user may paste over the field
PastedTexts ==
    { <<"8", "9", "1", "2", "3", "4", "5", "6", "7", "8", "9">>,
      <<"7", "7", "7", "9">>,
      <<"8", "9", "1", "2", "3", "4", "5", "6", "7", "8", "9", "0", "1", "2", "3", "4",
        "5", "6", "7", "8">>,
      <<"8", " ", "9", " ", "1", " ", "2", " ", "3", " ", "4", " ", "5", " ", "6", " ",
        "7", " ", "8", " ", "9", " ", "0", " ", "1">>,
      <<"+", "7", " ", "(", "9", "1", "2", ")", " ", "3", "4", "5", "-", "6", "7", "-",
        "8", "9", "0">>,
      << >> }

\* how long a text the user types into a field that is not masked
MaxTyped == 2

\* an 'input' event on the field, which has come to hold raw
InputEvent(raw) ==
    IF NameIncludesPhone(fieldName)
    THEN fieldValue' = InputListeners(page, raw) /\ phoneRaw' = raw
    ELSE fieldValue' = raw /\ UNCHANGED phoneRaw

PhonePages == {"scripts.js", "unnamed"}

\* the user types a character at the end of the field
TypeChar ==
    /\ page \in PhonePages
    /\ NameIncludesPhone(fieldName) \/ Len(fieldValue) < MaxTyped
    /\ \E c \in TypedChars : InputEvent(Append(fieldValue, c))
    /\ UNCHANGED <<page, fieldName, kellyVars, bulkVars, alertVars>>

\* whether the 'keydown' listener lets Backspace through with the caret at the
\* end of the field: it prevents it where selectionStart <= 3 in a 'phone' field
BackspaceAllowed(name, value) == ~(NameIncludesPhone(name) /\ Len(value) <= 3)

\* the user deletes the last character of the field
Backspace ==
    /\ page \in PhonePages
    /\ fieldValue # << >>
    /\ BackspaceAllowed(fieldName, fieldValue)
    /\ InputEvent(SubSeq(fieldValue, 1, Len(fieldValue) - 1))
    /\ UNCHANGED <<page, fieldName, kellyVars, bulkVars, alertVars>>

\* the user pastes a text over the whole of the field
Paste ==
    /\ page \in PhonePages
    /\ \E t \in PastedTexts : InputEvent(t)
    /\ UNCHANGED <<page, fieldName, kellyVars, bulkVars, alertVars>>

NoRaw == <<"none">>

\* the field as the page comes: empty, no 'input' event yet
PhoneLoaded == fieldName \in Fields /\ fieldValue = << >> /\ phoneRaw = NoRaw

\* a page where no field is edited
NoPhone == fieldName = "comment" /\ fieldValue = << >> /\ phoneRaw = NoRaw

NextPhone == TypeChar \/ Backspace \/ Paste

(* --------------- scripts.js and the unnamed script: alerts ------------ *)

\* how many '.alert' elements the page may come with
MaxAlerts == 2

\* setTimeout(..., 5000): the delay of the dismissal, in ms
DismissMs == 5000

\* setTimeout(() => msg.remove(), 500): the delay of the removal, in ms
RemoveMs == 500

\* the step of the clock, in ms: the shorter delay
TickMs == RemoveMs

\* how far the clock may run ahead of a timer that is due, in ms
MaxClock == 6000

\* the DOMContentLoaded handlers of the page that dismiss the alerts: one in
\* scripts.js (1-61), two in the unnamed script (1-30 and 42-84)
Handlers(p) == IF p = "scripts.js" THEN 1..1 ELSE 1..2

\* the '.alert' elements of the page
AlertsOf(els) == DOMAIN els

\* document.querySelectorAll('.alert')
QueryAlerts(els) == {a \in DOMAIN els : els[a].inDoc}

NewAlert == [opacity |-> "", inDoc |-> TRUE, fadedAt |-> -1, removedAt |-> -1]

\* a slip of RemovalDelay: the removal is not delayed
RemovalDelayNone(ms) == 0

\* the delay of the removal timer after the fade
RemovalDelay(ms) == ms

\* a DOMContentLoaded handler runs: it keeps the alerts it finds and, if there
\* are any, sets the dismissal timer
DomContentLoaded ==
    /\ page \in {"scripts.js", "unnamed"}
    /\ handlersRun + 1 \in Handlers(page)
    /\ handlersRun' = handlersRun + 1
    /\ messages' = [messages EXCEPT ![handlersRun'] = QueryAlerts(alertEls)]
    /\ timers' = IF QueryAlerts(alertEls) # {}
                 THEN Append(timers, [due |-> now + DismissMs, kind |-> "dismiss",
                                      of |-> handlersRun'])
                 ELSE timers
    /\ UNCHANGED <<page, kellyVars, bulkVars, phoneVars, alertEls, now>>

\* whether every DOMContentLoaded handler has run
Loaded == handlersRun + 1 \notin Handlers(page)

\* the timer the event loop runs next: the earliest due, the first set among equals
NextTimer ==
    CHOOSE i \in 1..Len(timers) :
        \A j \in 1..Len(timers) :
            timers[i].due < timers[j].due \/ (timers[i].due = timers[j].due /\ i <= j)

Without(seq, i) == SubSeq(seq, 1, i - 1) \o SubSeq(seq, i + 1, Len(seq))

\* messages.forEach of the dismissal: each alert fades
Faded(els, msgs, t) ==
    [a \in DOMAIN els |->
        IF a \in msgs
        THEN [els[a] EXCEPT !.opacity = "0",
                            !.fadedAt = IF els[a].fadedAt < 0 THEN t ELSE els[a].fadedAt]
        ELSE els[a]]

\* messages.forEach of the dismissal: one removal timer per alert, in order
RECURSIVE RemovalTimers(_, _)
RemovalTimers(msgs, t) ==
    IF msgs = {} THEN << >>
    ELSE LET a == CHOOSE x \in msgs : \A y \in msgs : x <= y
         IN  <<[due |-> t + RemovalDelay(RemoveMs), kind |-> "remove", of |-> a]>>
                 \o RemovalTimers(msgs \ {a}, t)

\* msg.remove(): nothing happens to an element that is not in the document
Removed(els, a, t) ==
    [els EXCEPT ![a] = IF els[a].inDoc
                       THEN [els[a] EXCEPT !.inDoc = FALSE, !.removedAt = t]
                       ELSE els[a]]

\* the callback of timer i runs
Fired(i) ==
    IF timers[i].kind = "dismiss"
    THEN /\ alertEls' = Faded(alertEls, messages[timers[i].of], now)
         /\ timers' = Without(timers, i) \o RemovalTimers(messages[timers[i].of], now)
    ELSE /\ alertEls' = Removed(alertEls, timers[i].of, now)
         /\ timers' = Without(timers, i)

\* the event loop runs the callback of a timer that is due
FireTimer ==
    /\ page \in {"scripts.js", "unnamed"}
    /\ Loaded
    /\ timers # << >>
    /\ timers[NextTimer].due <= now
    /\ Fired(NextTimer)
    /\ UNCHANGED <<page, kellyVars, bulkVars, phoneVars, messages, now, handlersRun>>

\* time passes: up to the next timer at least, a little further at most
Tick ==
    /\ page \in {"scripts.js", "unnamed"}
    /\ Loaded
    /\ timers # << >>
    /\ timers[NextTimer].due > now \/ now < MaxClock
    /\ now' = now + TickMs
    /\ UNCHANGED <<page, kellyVars, bulkVars, phoneVars, messages, alertEls, timers,
                   handlersRun>>

\* the page as DOMContentLoaded fires: its alerts, no handler run yet
AlertsLoading ==
    /\ \E n \in 0..MaxAlerts : alertEls = [a \in 1..n |-> NewAlert]
    /\ messages = [h \in 1..2 |-> {}]
    /\ timers = << >> /\ now = 0 /\ handlersRun = 0

\* a page without alerts, its handlers run
NoAlerts ==
    /\ alertEls = << >> /\ messages = [h \in 1..2 |-> {}]
    /\ timers = << >> /\ now = 0 /\ handlersRun = 2

NextAlerts == DomContentLoaded \/ FireTimer \/ Tick

(* --------------------------- specifications --------------------------- *)

\* the two calculator pages
InitKelly == (InitMain \/ InitCalc) /\ NoBulk /\ NoPhone /\ NoAlerts
NextKelly == NextMain \/ NextCalc
SpecKelly == InitKelly /\ [][NextKelly]_vars

\* the page of the calculator fields, none being edited
NoKelly ==
    /\ bankInput = << >> /\ oddsInput = << >> /\ probInput = << >> /\ kellySelect = <<"1">>
    /\ stakeInput = << >> /\ stakeDisplay = << >> /\ userModified = FALSE
    /\ defaultProbHint = << >> /\ resultBlock = "" /\ errorBlock = ""
    /\ errorMessage = "" /\ result = NoResult /\ last = NoRun

\* the page of the bulk-action form
InitBulk == page = "bet_records.js" /\ BulkLoaded /\ NoKelly /\ NoPhone /\ NoAlerts
SpecBulk == InitBulk /\ [][NextBulk]_vars

\* a page of scripts.js or of the unnamed script, a field being edited
InitPhone == page \in PhonePages /\ PhoneLoaded /\ NoKelly /\ NoBulk /\ NoAlerts
SpecPhone == InitPhone /\ [][NextPhone]_vars

\* a page of scripts.js or of the unnamed script, with its alerts; the event loop
\* runs every handler and every timer that is due, and time passes
InitAlerts == page \in PhonePages /\ AlertsLoading /\ NoKelly /\ NoBulk /\ NoPhone
SpecAlerts ==
    /\ InitAlerts /\ [][NextAlerts]_vars
    /\ WF_vars(DomContentLoaded) /\ WF_vars(FireTimer) /\ WF_vars(Tick)

\* every page
Init == InitKelly \/ InitBulk \/ InitPhone \/ InitAlerts
Next == NextKelly \/ NextBulk \/ NextPhone \/ NextAlerts
Spec == Init /\ [][Next]_vars

(* ------------------------- claims: calculators ------------------------ *)

\* the formula of the specification:
\* stake = bankroll * max(0, min((p * odds - 1) / (odds - 1), 1)) * fraction
ClampedFraction(f) == IF RLt(f, Num(0)) THEN Num(0) ELSE IF RGt(f, Num(1)) THEN Num(1) ELSE f

KellyFormula(bank, odds, p, fraction) ==
    RMul(RMul(bank, ClampedFraction(RDiv(RSub(RMul(p, odds), Num(1)), RSub(odds, Num(1))))),
         fraction)

\* the probability percent a run read from the field, by the page's own parser
EnteredProb(run) ==
    IF run.fn = "calculateStake" THEN GetFloatValue(run.probText)
    ELSE ParseFloat(run.probText)

\* whether the run was of calculate on a probability that is empty, unparsable or
\* not positive
DefaultUsed(run) ==
    /\ run.fn = "calculate"
    /\ (IsNaN(EnteredProb(run)) \/ RLe(EnteredProb(run), Num(0)))

\* min(105 / odds, 99.9): the probability calculate puts in place of such a one
DefaultFor(odds) ==
    IF RLt(RDiv(Num(105), odds), Rat(999, 10)) THEN RDiv(Num(105), odds) ELSE Rat(999, 10)

\* the probability percent a run computes with
UsedProb(run) == IF DefaultUsed(run) THEN DefaultFor(run.odds) ELSE EnteredProb(run)

StakeIsFormulaOf(run, prob) ==
    /\ run.stake = KellyFormula(run.bank, run.odds, RDiv(prob, Num(100)), run.fraction)
    /\ (RLe(RMul(RDiv(prob, Num(100)), run.odds), Num(1)) => run.stake = Num(0))
    /\ RLe(run.stake, RMul(run.bank, run.fraction))

\* C1 as stated: in every accepted run the stake before rounding is the formula of
\* the ENTERED probability, 0 when p * odds <= 1 and at most bankroll * fraction
C1_StakeOfEnteredProb == last.accepted => StakeIsFormulaOf(last, EnteredProb(last))

\* C1, amended: in every accepted run the stake before rounding is
\* bankroll * max(0, min((p * odds - 1) / (odds - 1), 1)) * fraction for the
\* probability the run computes with: the entered one, or min(105 / odds, 99.9)
\* where calculate found the field empty, unparsable or not positive; it is 0 when
\* p * odds <= 1 and never exceeds bankroll * fraction
C1_StakeOfUsedProb == last.accepted => StakeIsFormulaOf(last, UsedProb(last))

\* an accepted run of calculate on the entered probability "-5", whose stake is
\* positive: the default probability was used
C1_DefaultProbRun ==
    /\ last.accepted /\ last.fn = "calculate" /\ last.probText = <<"-", "5">>
    /\ RGt(last.stake, Num(0))

\* C2: a calculator computes a stake only when odds > 1.01, 0 < probability < 100
\* and bankroll >= 100; otherwise calculate shows the error and hides the result,
\* and calculateStake writes the stake 0
C2_ComputesOnlyInDomain ==
    /\ last.accepted =>
        /\ RGt(last.odds, Rat(101, 100))
        /\ RGt(EnteredProb(last), Num(0)) /\ RLt(EnteredProb(last), Num(100))
        /\ RGe(last.bank, Num(100))
    /\ (last.fn = "calculate" /\ ~last.accepted) =>
        (errorBlock = "flex" /\ resultBlock = "none")
    /\ (last.fn = "calculateStake" /\ ~last.accepted) =>
        (stakeInput = <<"0">> /\ stakeDisplay = <<"0">>)

\* the stake a calculator wrote out, read back from the page
WrittenStake ==
    IF last.fn = "calculateStake" THEN stakeInput ELSE result.recommendedStake

\* C3: after every accepted run the stake written out is a non-negative multiple
\* of 100 and differs from the stake before rounding by at most 50
C3_NearestHundred ==
    last.accepted =>
        /\ "-" \notin {WrittenStake[i] : i \in 1..Len(WrittenStake)}
        /\ DigitsValue(OnlyDigits(WrittenStake)) % 100 = 0
        /\ RLe(RSub(Num(DigitsValue(OnlyDigits(WrittenStake))), last.stake), Num(50))
        /\ RLe(RSub(last.stake, Num(DigitsValue(OnlyDigits(WrittenStake)))), Num(50))
        /\ (last.fn = "calculateStake" => StripSpaces(stakeDisplay) = stakeInput)

\* an accepted run whose stake before rounding is no whole number, written out rounded
C3_RoundedRun ==
    /\ last.accepted /\ last.stake.d # 1
    /\ DigitsValue(OnlyDigits(WrittenStake)) > 0

\* the run of the other calculator on the field texts of a run
OtherRun(run) ==
    IF run.fn = "calculateStake"
    THEN Calculate(run.oddsText, run.probText, run.bankText, run.kellyText, PageState).run
    ELSE CalculateStakeLocals(run.bankText, run.oddsText, run.probText, run.kellyText)

SameResult(a, b) ==
    /\ a.accepted = b.accepted
    /\ a.accepted => a.roundedStake = b.roundedStake

\* C4 as stated: on the same field texts the two calculators make the same
\* accept/reject decision and, when they accept, give the same rounded stake
C4_SameOnEveryText == last.fn # "none" => SameResult(last, OtherRun(last))

\* whether both parsers read the same number, in calculate's domain, from the texts
\* of a run, and calculate keeps the entered probability
CommonDomain(run) ==
    /\ GetFloatValue(run.bankText) = ParseFloat(run.bankText)
    /\ GetFloatValue(run.oddsText) = ParseFloat(run.oddsText)
    /\ GetFloatValue(run.probText) = ParseFloat(run.probText)
    /\ RGe(ParseFloat(run.oddsText), Rat(101, 100))
    /\ RGt(ParseFloat(run.probText), Num(0)) /\ RLt(ParseFloat(run.probText), Num(100))
    /\ RGe(ParseFloat(run.bankText), Num(100))

\* C4, amended: the calculators agree on the texts that getFloatValue and
\* parseFloat read as the same numbers with odds >= 1.01, 0 < probability < 100
\* and bankroll >= 100: there both accept and give the same rounded stake
C4_SameOnCommonDomain ==
    (last.fn # "none" /\ CommonDomain(last)) =>
        /\ last.accepted /\ OtherRun(last).accepted
        /\ last.roundedStake = OtherRun(last).roundedStake

\* a run in the common domain whose stake had to be rounded
C4_CommonRun ==
    /\ last.fn = "calculate" /\ CommonDomain(last) /\ last.accepted
    /\ last.stake.d = 1 /\ last.stake.n % 100 # 0

\* C5: once the user has typed a stake (the flag is set), an edit of the bankroll,
\* the odds, the probability or the multiplier overwrites neither stakeInput nor
\* stakeDisplay
C5_ManualStakeKept ==
    [][(page = "main.js" /\ userModified /\ last' # NoRun)
            => (stakeInput' = stakeInput /\ stakeDisplay' = stakeDisplay)]_vars

\* C10 as stated: for every odds >= 1.01 calculateDefaultProbability returns the p
\* with (p / 100 * odds - 1) * 100 = 5
C10_RoiFiveForAllOdds ==
    (page = "bet_records.js" /\ RGe(ParseFloat(oddsInput), Rat(101, 100))) =>
        RMul(RSub(RMul(RDiv(CalculateDefaultProbability(oddsInput), Num(100)),
                       ParseFloat(oddsInput)), Num(1)), Num(100)) = Num(5)

\* |x - y| <= 1/20: y is x to one decimal
WithinHalfTenth(x, y) == RLe(RSub(x, y), Rat(1, 20)) /\ RLe(RSub(y, x), Rat(1, 20))

\* the probability text inside a hint text
HintProb(h) == SubSeq(h, 7, Len(h) - 2)

DefaultProbabilityRight(odds, r) ==
    IF IsNaN(odds) \/ RLt(odds, Rat(101, 100))
    THEN r = Null /\ defaultProbHint = << >>
    ELSE /\ RLe(r, Rat(999, 10))
         /\ RMul(r, odds) = Num(105) \/ (r = Rat(999, 10) /\ RGt(Num(105), RMul(r, odds)))
         /\ Len(defaultProbHint) > 8
         /\ SubSeq(defaultProbHint, 1, 6) = <<"(", "ROI", " ", "5", "%", " ">>
         /\ WithinHalfTenth(r, ParseFloat(HintProb(defaultProbHint)))
         /\ (last.fn = "calculate" /\ DefaultUsed(last)) =>
                (last.prob = r /\ WithinHalfTenth(r, ParseFloat(probInput)))

\* C10, amended: for odds >= 1.01 calculateDefaultProbability returns
\* min(105 / odds, 99.9): the probability for an ROI of 5% where that is at most
\* 99.9 and 99.9 otherwise; the hint shows it, to one decimal, as needed for ROI 5%,
\* and calculate computes with it, and writes it to one decimal into the field,
\* where the field is empty, unparsable or not positive; for odds below 1.01 or
\* unparsable it returns null and the hint is empty
C10_DefaultProbability ==
    page = "bet_records.js" =>
        DefaultProbabilityRight(ParseFloat(oddsInput), CalculateDefaultProbability(oddsInput))

\* calculate has put the capped default, 99.9, in place of an empty probability
C10_CappedDefaultUsed ==
    /\ page = "bet_records.js" /\ oddsInput = <<"1", ".", "0", "1">>
    /\ last.fn = "calculate" /\ last.accepted /\ last.probText = << >>
    /\ probInput = <<"9", "9", ".", "9">>
    /\ HintProb(defaultProbHint) = <<"9", "9", ".", "9">>

(* ------------------------ claims: bulk actions ------------------------ *)

\* C6: whenever the bulk-action form is submitted, its hidden 'selected_bets'
\* inputs are exactly one per checkbox checked at the most recent accepted Apply
\* click, in document order, with none left over from an earlier Apply;
\* 'bulk_action' is the action chosen at that Apply and 'confirm' is 'true'
C6_SubmittedIsLastApply ==
    submission.sent =>
        /\ submission.applied.checked # {} /\ submission.applied.action # ""
        /\ submission.selected_bets = InOrder(submission.applied.checked)
        /\ Len(form) = BaseChildren + Cardinality(submission.applied.checked)
        /\ submission.bulk_action = submission.applied.action
        /\ submission.confirm = "true"

\* a form submitted after a second accepted Apply that dropped a checkbox of the
\* first
C6_SubmittedAfterReapply ==
    /\ submission.sent
    /\ submission.applied.earlier \ submission.applied.checked # {}

\* C7: an Apply click with no action selected or no checkbox checked raises an
\* alert and leaves the form's children, bulkActionInput, the modal body and the
\* modal's 'show' class as they were; the modal gains 'show' only by an Apply
\* click with an action and a checked checkbox; after a checkbox change the Apply
\* button is disabled exactly when no checkbox is checked
C7_ApplyRejected ==
    [][ /\ (bulkEvent'.type = "apply" /\ (actionSelect = "" \/ checkedBets = {}))
            => /\ bulkEvent'.alert # ""
               /\ form' = form /\ bulkActionInput' = bulkActionInput
               /\ modalBody' = modalBody /\ modalShow' = modalShow
        /\ (~modalShow /\ modalShow')
            => (bulkEvent'.type = "apply" /\ actionSelect # "" /\ checkedBets # {})
        /\ bulkEvent'.type = "change" => (applyDisabled' <=> checkedBets' = {})
      ]_vars

\* an Apply click rejected on a form that holds the inputs of an earlier Apply
C7_RejectedAfterApply ==
    /\ bulkEvent.type = "apply" /\ bulkEvent.alert # ""
    /\ Len(form) > BaseChildren /\ ~modalShow

(* ------------------------- claims: phone mask ------------------------- *)

\* the layout of the subscriber digits
PhoneTemplate ==
    <<"(", "X", "X", "X", ")", " ", "X", "X", "X", "-", "X", "X", "-", "X", "X">>

\* whether s is the template, digits for its X, cut somewhere
LaidOut(s) ==
    /\ Len(s) <= Len(PhoneTemplate)
    /\ \A i \in 1..Len(s) :
        IF PhoneTemplate[i] = "X" THEN s[i] \in DigitChars ELSE s[i] = PhoneTemplate[i]

\* the typed digits without a leading 7 or 8
WithoutLeading7or8(digits) ==
    IF digits # << >> /\ digits[1] \in {"7", "8"} THEN Tail(digits) ELSE digits

IsPrefix(s, t) == Len(s) <= Len(t) /\ s = SubSeq(t, 1, Len(s))

\* the digits of a masked value after the 7 of its prefix
SubscriberDigits(value) == Tail(OnlyDigits(value))

\* C8: after the input listeners have run on a field whose name contains 'phone',
\* whatever the raw text was, the value is '+7 ' followed by at most 10
\* subscriber digits laid out as '(XXX) XXX-XX-XX', cut where the digits run out:
\* at most 11 digits and 18 characters; the subscriber digits are the typed
\* digits from their start, a leading 7 or 8 dropped; masking the value again
\* returns it unchanged
C8_PhoneMasked ==
    (NameIncludesPhone(fieldName) /\ phoneRaw # NoRaw) =>
        /\ Len(fieldValue) >= 3 /\ SubSeq(fieldValue, 1, 3) = <<"+", "7", " ">>
        /\ LaidOut(SubSeq(fieldValue, 4, Len(fieldValue)))
        /\ Len(OnlyDigits(fieldValue)) <= 11 /\ Len(fieldValue) <= 18
        /\ Len(SubscriberDigits(fieldValue)) <= 10
        /\ IsPrefix(SubscriberDigits(fieldValue), WithoutLeading7or8(OnlyDigits(phoneRaw)))
        /\ InputListeners(page, fieldValue) = fieldValue

\* a full masked number out of a raw text of more than 11 digits that began with
\* an 8, both listeners of scripts.js having run
C8_LongRawMasked ==
    /\ page = "scripts.js" /\ NameIncludesPhone(fieldName) /\ phoneRaw # NoRaw
    /\ Len(OnlyDigits(phoneRaw)) > 11 /\ phoneRaw[1] = "8"
    /\ Len(fieldValue) = 18

(* --------------------------- claims: alerts --------------------------- *)

\* no alert fades before the 5-second timer has fired, none is removed before
\* it has faded, and the removal comes 500 ms after the fade or later
AlertsInOrder ==
    \A a \in DOMAIN alertEls :
        /\ alertEls[a].opacity = "0" <=> alertEls[a].fadedAt >= 0
        /\ alertEls[a].fadedAt >= 0 => alertEls[a].fadedAt >= DismissMs
        /\ ~alertEls[a].inDoc =>
            /\ alertEls[a].opacity = "0"
            /\ alertEls[a].removedAt >= alertEls[a].fadedAt + RemoveMs

\* every alert is out of the document and no timer is left
AllRemoved == timers = << >> /\ \A a \in DOMAIN alertEls : ~alertEls[a].inDoc

\* C9: every '.alert' present at DOMContentLoaded is eventually removed and stays
\* removed when every timer has run, the second removal of the unnamed script
\* included; none is removed before the 5-second timer has fired, and each has
\* its opacity set to 0 at least 500 ms before its removal
C9_AlertsDismissed == []AlertsInOrder /\ <>[]AllRemoved

\* two alerts of the unnamed script, faded by both handlers, removed, the second
\* removal of each done
C9_RemovedTwice ==
    /\ page = "unnamed" /\ handlersRun = 2 /\ Cardinality(DOMAIN alertEls) = 2
    /\ messages[1] = DOMAIN alertEls /\ messages[2] = DOMAIN alertEls
    /\ AllRemoved

(* ------------------ claims: error and result blocks ------------------- *)

\* whether a block is displayed by its style.display
Displayed(display) == display \in {"block", "flex"}

\* C11: in the calculator of bet_records.js the error block and the result block
\* are never both displayed; a rejected calculation leaves the error displayed,
\* with its message, and the result hidden, whatever an earlier calculation
\* showed; an accepted calculation leaves the error hidden and the result
\* displayed
C11_ErrorOrResult ==
    page = "bet_records.js" =>
        /\ ~(Displayed(errorBlock) /\ Displayed(resultBlock))
        /\ (last.fn = "calculate" /\ ~last.accepted) =>
            (errorBlock = "flex" /\ resultBlock = "none" /\ errorMessage # "")
        /\ (last.fn = "calculate" /\ last.accepted) =>
            (errorBlock = "none" /\ resultBlock = "block")

\* a calculation rejected after an accepted one: the result block, still holding
\* the texts of the accepted calculation, is hidden
C11_RejectedAfterAccepted ==
    /\ page = "bet_records.js" /\ last.fn = "calculate" /\ ~last.accepted
    /\ result # NoResult /\ resultBlock = "none" /\ errorBlock = "flex"

(* --------------------- claims: stake and bankroll --------------------- *)

\* whether a run computed a stake with a Kelly multiplier in (0, 1]
MultiplierInUnit(run) ==
    run.accepted /\ RGt(run.fraction, Num(0)) /\ RLe(run.fraction, Num(1))

\* C12: for every accepted input with a Kelly multiplier in (0, 1] the rounded
\* stake written out (stakeInput in main.js, recommendedStake in bet_records.js)
\* does not exceed the entered bankroll
C12_StakeWithinBankroll ==
    MultiplierInUnit(last) =>
        RLe(Num(DigitsValue(OnlyDigits(WrittenStake))), last.bank)

\* C12 for the calculator of bet_records.js, run on the field texts of a run of
\* main.js
C12_CalculateWithinBankroll ==
    (last.fn = "calculateStake" /\ MultiplierInUnit(OtherRun(last))) =>
        RLe(Num(OtherRun(last).roundedStake), OtherRun(last).bank)

\* whether a run was on inputs of the documented domain: odds above 1.01, a
\* probability strictly between 0 and 100, a bankroll of 100 at least
InDomain(run) ==
    /\ RGt(run.odds, MinOdds) /\ RGt(run.prob, Num(0)) /\ RLt(run.prob, Num(100))
    /\ RGe(run.bank, Num(100))

\* C12 for the runs on inputs of the documented domain
C12_WithinBankrollInDomain == InDomain(last) => C12_StakeWithinBankroll

====
